---- MODULE Spec2Model ----
(***************************************************************************)
(* Gateway in front of the Gemini API: worker authentication middleware,   *)
(* the /v1beta catch-all proxy handler, and the key rotation manager the   *)
(* handler calls (geminiKeyService).                                       *)
(*                                                                         *)
(* Two versions of the router (routes/apiV1beta.js and unnamed/part_000)   *)
(* and of the middleware (middleware/workerAuth.js and unnamed/part_001)   *)
(* exist in the repository; routerFile and authFile say which one serves.  *)
(***************************************************************************)
EXTENDS Integers, Sequences, FiniteSets, TLC

\* ---------------------------------------------------------------- bounds
NumKeys == 2
MaxReq == 2
MaxClock == 3
MaxParams == 2
MaxChunks == 2
DefaultCooldown == 2
HintCooldown == 1

Keys == 1..NumKeys
Requests == 1..MaxReq
NoKey == 0

\* ------------------------------------------------------ external stores
\* worker_keys table consulted by requireWorkerAuth
WorkerKeys == {"w1"}

NoModel == "<null>"
NoCat == "<none>"
Categories == {"Pro", "Flash"}
Cats == Categories \cup {NoCat}

\* configService.getModelsConfig(): model id -> category (unmapped ids have none)
modelsConfig(m) ==
    IF m = "gemini-pro" THEN "Pro"
    ELSE IF m = "gemini-flash" THEN "Flash"
    ELSE NoCat

\* secret of an upstream key (selectedKey.key), distinct from its id
Secret(k) == IF k = 1 THEN "AIza-1" ELSE IF k = 2 THEN "AIza-2" ELSE "AIza-n"

Max(a, b) == IF a >= b THEN a ELSE b

\* ------------------------------------------------------------ HTTP text
Absent == "<absent>"

\* String.prototype.trim on the credential texts that occur
Trim(s) == IF s = " w1" THEN "w1" ELSE s

\* URLSearchParams decoding and encoding of a parameter value
UrlDecode(v) == IF v = "a%20b" \/ v = "a+b" THEN "a b" ELSE v
UrlEncode(d) == IF d = "a b" THEN "a+b" ELSE d

NoHeader == [scheme |-> "<none>", rest |-> ""]

\* a path after the mount point: optional extra version segment, resource
\* root, and for models an id and an optional ":action"
Path(pre, root, model, action) ==
    [pre |-> pre, root |-> root, model |-> model, action |-> action]
PathModelsPro == Path(FALSE, "models", "gemini-pro", TRUE)
PathModelsFlash == Path(FALSE, "models", "gemini-flash", TRUE)
PathModelsUnmapped == Path(FALSE, "models", "tuned-x", TRUE)
PathFiles == Path(FALSE, "files", "", FALSE)
PathAlphaPro == Path(TRUE, "models", "gemini-pro", TRUE)
PathOther == Path(FALSE, "other", "", FALSE)

HeaderNames ==
    {"host", "authorization", "connection", "x-goog-api-key", "content-type",
     "user-agent"}

\* text of an Authorization header as Node hands it over in req.headers
HeaderText(a) == IF a = NoHeader THEN Absent ELSE a.scheme \o " " \o a.rest

\* req.headers of an inbound request
InboundHeaders(i) ==
    [h \in HeaderNames |->
        CASE h = "host" -> "gateway.example"
          [] h = "authorization" -> HeaderText(i.auth)
          [] h = "connection" -> "keep-alive"
          [] h = "x-goog-api-key" -> i.xgoog
          [] h = "content-type" -> i.ctype
          [] OTHER -> "curl/8"]

\* a query string is a sequence of <<name, raw value>> pairs
IsKeyParam(p) == p[1] = "key"
KeyParams(q) == SelectSeq(q, IsKeyParam)
NotKeyParam(p) == p[1] # "key"

\* Express's req.query.key: absent, one string, or an array for a repeated name
QueryKey(q) ==
    IF Len(KeyParams(q)) = 0 THEN [kind |-> "absent", val |-> ""]
    ELSE IF Len(KeyParams(q)) = 1
         THEN [kind |-> "string", val |-> UrlDecode(KeyParams(q)[1][2])]
         ELSE [kind |-> "array", val |-> UrlDecode(KeyParams(q)[1][2])]
NoQueryKey == [kind |-> "absent", val |-> ""]

\* JavaScript truthiness of such a value (an array is truthy, "" is not)
Truthy(v) == v.kind = "array" \/ (v.kind = "string" /\ v.val # "")

VARIABLES
    routerFile, authFile,
    now,
    invalid, cooldownUntil, usage, cursor,
    req, pc, url, workerApiKey,
    sel, out, upstream, res,
    pending,
    io, calls,
    snap, cooled, run, rateAfterInvalid

buildVars == <<routerFile, authFile>>
keyVars == <<invalid, cooldownUntil, usage, cursor>>
\* history kept for the properties only: what each selection saw, the cooldowns
\* recorded so far, the current run of selections, rate limits on Invalid keys
histVars == <<snap, cooled, run, rateAfterInvalid>>
\* the transfer of one response body, and the calls made for each request
ioVars == <<io, calls>>
vars == <<routerFile, authFile, now, invalid, cooldownUntil, usage, cursor,
          req, pc, url, workerApiKey, sel, out, upstream, res, pending,
          io, calls, snap, cooled, run, rateAfterInvalid>>

\* ---------------------------------------------- routes/apiV1beta.js 18-35
\* URLSearchParams(query).delete('key').toString(): the other parameters,
\* decoded and encoded again
DeleteKeyParam(q) ==
    LET rest == SelectSeq(q, NotKeyParam)
    IN [n \in 1..Len(rest) |-> <<rest[n][1], UrlEncode(UrlDecode(rest[n][2]))>>]

\* workerAuthFromQuery: what it leaves on req (workerApiKeyFromQuery, url, query.key)
workerAuthFromQuery(i) ==
    IF i.auth = NoHeader /\ Truthy(QueryKey(i.query))
    THEN [workerApiKeyFromQuery |-> QueryKey(i.query),
          url |-> DeleteKeyParam(i.query),
          queryKey |-> NoQueryKey]
    ELSE [workerApiKeyFromQuery |-> NoQueryKey,
          url |-> i.query,
          queryKey |-> QueryKey(i.query)]

\* the router without that middleware (unnamed/part_000 9-10): req untouched
NoQueryMiddleware(i) ==
    [workerApiKeyFromQuery |-> NoQueryKey,
     url |-> i.query,
     queryKey |-> QueryKey(i.query)]

\* --------------------------------------------- middleware/workerAuth.js
BearerToken(a) ==
    IF a.scheme = "Bearer" THEN [kind |-> "string", val |-> a.rest] ELSE NoQueryKey

\* lines 11-22: the credential the middleware goes on with
WorkerAuthCredential(i, q) ==
    IF i.auth.scheme = "Bearer" THEN BearerToken(i.auth)
    ELSE IF Truthy(q.queryKey) /\ q.queryKey.kind = "string" THEN q.queryKey
    ELSE NoQueryKey

\* unnamed/part_001 12-19: header first, then req.workerApiKeyFromQuery
Part001Credential(i, q) ==
    IF Truthy(BearerToken(i.auth)) THEN BearerToken(i.auth)
    ELSE IF Truthy(q.workerApiKeyFromQuery) THEN q.workerApiKeyFromQuery
    ELSE NoQueryKey

\* outcomes of db.get(sql, [key]): a row, no row, or an error
DbOutcomes(c) ==
    IF c.kind = "string" /\ c.val \in WorkerKeys THEN {"row", "err"}
    ELSE {"norow", "err"}

\* a lookup whose empty result is not looked at
AuthResultIgnoringMissingRow(c, db) ==
    IF ~Truthy(c) THEN [to |-> "401", workerApiKey |-> Absent]
    ELSE IF db = "err" THEN [to |-> "next(err)", workerApiKey |-> Absent]
    ELSE [to |-> "next", workerApiKey |-> c.val]

\* requireWorkerAuth as a whole: where the request goes and with which
\* req.workerApiKey. db is the outcome of the lookup.
AuthResult(c, db) ==
    IF ~Truthy(c) THEN [to |-> "401", workerApiKey |-> Absent]
    ELSE IF db = "err" THEN [to |-> "next(err)", workerApiKey |-> Absent]
    ELSE IF db = "norow" THEN [to |-> "401", workerApiKey |-> Absent]
    ELSE [to |-> "next", workerApiKey |-> c.val]

\* workerAuth.js 24-52 (the key is trimmed before the lookup)
TrimCredential(c) == [c EXCEPT !.val = Trim(c.val)]
requireWorkerAuth(i, q, db) ==
    LET c == WorkerAuthCredential(i, q)
    IN IF ~Truthy(c) THEN AuthResult(c, db) ELSE AuthResult(TrimCredential(c), db)
requireWorkerAuthDb(i, q) ==
    LET c == WorkerAuthCredential(i, q)
    IN IF ~Truthy(c) THEN {"norow"} ELSE DbOutcomes(TrimCredential(c))

\* unnamed/part_001 21-52 (no trim)
requireWorkerAuthPart001(i, q, db) == AuthResult(Part001Credential(i, q), db)
requireWorkerAuthPart001Db(i, q) ==
    IF ~Truthy(Part001Credential(i, q)) THEN {"norow"}
    ELSE DbOutcomes(Part001Credential(i, q))

\* ------------------------------------------- services/geminiKeyService
\* The rotation manager the router calls. Its state is the key pool:
\* invalid[k], cooldownUntil[k][c], usage[k] and the rotation cursor.
ModelIds == {"gemini-pro", "gemini-flash", "tuned-x", NoModel}

\* a cooldown that lasts until something resets it
CoolingDownUntilReset(k, c) == cooldownUntil[k][c] > 0

\* a cooldown is over as soon as the clock has reached its end: nothing is
\* reset, the comparison is made when a selection looks at the key
CoolingDown(k, c) == cooldownUntil[k][c] > now
Eligible(k, c) == ~invalid[k] /\ ~CoolingDown(k, c)
EligibleKeys(c) == {k \in Keys : Eligible(k, c)}

\* the j-th key in rotation order, starting just after the cursor
RotationKey(j) == ((cursor + j - 1) % NumKeys) + 1

\* first eligible key in plain index order: not what the manager does
FirstEligibleByIndex(c) ==
    IF EligibleKeys(c) = {} THEN NoKey
    ELSE CHOOSE k \in EligibleKeys(c) : \A o \in EligibleKeys(c) : k <= o

\* scan that ignores the health state of the keys
FirstNotCoolingInRotation(c) ==
    IF \A k \in Keys : CoolingDown(k, c) THEN NoKey
    ELSE LET j == CHOOSE n \in 1..NumKeys :
                   /\ ~CoolingDown(RotationKey(n), c)
                   /\ \A o \in 1..(n - 1) : CoolingDown(RotationKey(o), c)
         IN RotationKey(j)

\* selectKey: the first eligible key in rotation order, or none
SelectKey(c) ==
    IF EligibleKeys(c) = {} THEN NoKey
    ELSE LET j == CHOOSE n \in 1..NumKeys :
                   /\ Eligible(RotationKey(n), c)
                   /\ \A o \in 1..(n - 1) : ~Eligible(RotationKey(o), c)
         IN RotationKey(j)

\* getNextAvailableGeminiKey(modelId): category from the config, then select
getNextAvailableGeminiKey(m) == SelectKey(modelsConfig(m))

\* duration of a cooldown: the upstream retry hint if the diagnostic has one
CooldownFor(diag) == IF diag = "hint" THEN HintCooldown ELSE DefaultCooldown

\* recordRateLimited leaves an Invalid key Invalid
InvalidAfterRateLimited(k) == invalid[k]

\* a cooldown that replaces a longer one still running
CooldownOverwritten(k, c, diag) == now + CooldownFor(diag)

\* recordRateLimited: cooling down for c until now + duration; a cooldown
\* that is already running for longer is kept
CooldownAfterRateLimited(k, c, diag) ==
    IF invalid[k] THEN cooldownUntil[k][c]
    ELSE Max(cooldownUntil[k][c], now + CooldownFor(diag))

\* recordUsage: one atomic increment
UsageAfterIncrement(n) == n + 1

\* ------------------------------------------ routes/apiV1beta.js 43-183
\* line 63: /^\/models\/([^:]+):/ on the path after the mount point
modelId(path) ==
    IF ~path.pre /\ path.root = "models" /\ path.model # "" /\ path.action
    THEN path.model ELSE NoModel

\* line 74
modelCategory(m) == IF m # NoModel THEN modelsConfig(m) ELSE NoCat

\* a target that starts at the resource root, dropping what is ahead of it
targetUrlFromResourceRoot(path, q) == [path |-> [path EXCEPT !.pre = FALSE], query |-> q]

\* line 54 and 84: path as received, query string as req.url has it now
targetUrl(path, q) == [path |-> path, query |-> q]

HasBodyMethod(method) == method # "GET" /\ method # "HEAD"

\* headers that keep the caller's Authorization header
headersKeepingAuthorization(i, k) ==
    [h \in HeaderNames |->
        CASE h \in {"host", "connection"} -> Absent
          [] h = "x-goog-api-key" -> Secret(k)
          [] h = "content-type" ->
                IF HasBodyMethod(i.method) /\ InboundHeaders(i)[h] = Absent
                THEN "application/json" ELSE InboundHeaders(i)[h]
          [] h = "user-agent" -> "gemini-proxy-panel-node/v1beta"
          [] OTHER -> InboundHeaders(i)[h]]

\* lines 89-101
headersToForward(i, k) ==
    [h \in HeaderNames |->
        CASE h \in {"host", "authorization", "connection"} -> Absent
          [] h = "x-goog-api-key" -> Secret(k)
          [] h = "content-type" ->
                IF HasBodyMethod(i.method) /\ InboundHeaders(i)[h] = Absent
                THEN "application/json" ELSE InboundHeaders(i)[h]
          [] h = "user-agent" -> "gemini-proxy-panel-node/v1beta"
          [] OTHER -> InboundHeaders(i)[h]]

Statuses == {200, 429, 401, 403, 500}
ok(status) == status >= 200 /\ status <= 299

Op(kind, r, k, m, c, diag) ==
    [op |-> kind, req |-> r, key |-> k, model |-> m, cat |-> c, diag |-> diag]

\* classification that counts a request only when the upstream said ok
FeedbackOnlyWhenOk(r, k, m, c, status, body) ==
    (IF ok(status) THEN {Op("usage", r, k, m, c, "")} ELSE {})
    \cup (IF status \in {401, 403} THEN {Op("cred", r, k, m, c, "")} ELSE {})

\* classification that misses 403
FeedbackMissing403(r, k, m, c, status, body) ==
    {Op("usage", r, k, m, c, "")}
    \cup (IF status = 401 THEN {Op("cred", r, k, m, c, "")} ELSE {})

\* lines 132-171: the service calls started before the handler's next await
FeedbackOnResponse(r, k, m, c, status, body) ==
    IF body
    THEN {Op("usage", r, k, m, c, "")}
         \cup (IF ~ok(status) /\ status # 429 /\ status \in {401, 403}
               THEN {Op("cred", r, k, m, c, "")} ELSE {})
    ELSE {Op("usage", r, k, m, c, "")}
         \cup (IF ~ok(status) /\ status \in {401, 403}
               THEN {Op("cred", r, k, m, c, "")} ELSE {})

\* line 140-143: the handler goes on to await geminiResponse.text()
AwaitsText(status, body) == body /\ ~ok(status) /\ status = 429

\* ---------------------------------------------------------------- state
NoInput ==
    [auth |-> NoHeader, query |-> <<>>, xgoog |-> Absent, ctype |-> Absent,
     method |-> "GET", path |-> PathFiles]
NoOut ==
    [sent |-> FALSE, key |-> NoKey, path |-> PathFiles, query |-> <<>>,
     headers |-> [h \in HeaderNames |-> Absent]]
NoRes == [status |-> 0, kind |-> "none", ended |-> FALSE]
NoUpstream == [status |-> 0, body |-> FALSE, chunks |-> <<>>]

\* the upstream exchange and the caller's connection of one request:
\* up is the state of the upstream exchange, emitted the number of chunks
\* geminiResponse.body has emitted, wrote what was written to res, text what
\* the listener of geminiResponse.text() has collected
NoIo ==
    [up |-> "none", emitted |-> 0, wrote |-> <<>>, text |-> <<>>,
     piped |-> FALSE, reading |-> FALSE, caller |-> "open"]
NoCalls == [select |-> 0, fetch |-> 0, usage |-> 0, rate |-> 0, cred |-> 0]

Bearer(tok) == [scheme |-> "Bearer", rest |-> tok]

\* requests of the concurrent runs: authenticated callers, three kinds of path
CoreInputs ==
    {[auth |-> Bearer("w1"), query |-> <<>>, xgoog |-> Absent, ctype |-> Absent,
      method |-> "POST", path |-> p] : p \in {PathModelsPro, PathModelsFlash, PathFiles}}

NoSnap ==
    [called |-> FALSE, at |-> 0, cat |-> NoCat, inv |-> {}, cool |-> {},
     coolAny |-> {}, ends |-> 0]
NoRun == [cat |-> NoCat, keys |-> <<>>, allEligible |-> FALSE]

InitCommon ==
    /\ now = 0
    /\ cooldownUntil = [k \in Keys |-> [c \in Cats |-> 0]]
    /\ usage = [k \in Keys |-> [byModel |-> [m \in ModelIds |-> 0],
                                byCategory |-> [c \in Cats |-> 0]]]
    /\ cursor = 0
    /\ req = [r \in Requests |-> NoInput]
    /\ pc = [r \in Requests |-> "new"]
    /\ url = [r \in Requests |-> <<>>]
    /\ workerApiKey = [r \in Requests |-> Absent]
    /\ sel = [r \in Requests |-> NoKey]
    /\ out = [r \in Requests |-> NoOut]
    /\ upstream = [r \in Requests |-> NoUpstream]
    /\ res = [r \in Requests |-> NoRes]
    /\ pending = {}
    /\ io = [r \in Requests |-> NoIo]
    /\ calls = [r \in Requests |-> NoCalls]
    /\ snap = [r \in Requests |-> NoSnap]
    /\ cooled = {}
    /\ run = NoRun
    /\ rateAfterInvalid = [k \in Keys |-> FALSE]

\* the pool as the persistence layer hands it over: keys may already be Invalid
Init ==
    /\ InitCommon
    /\ routerFile = "apiV1beta.js"
    /\ authFile = "workerAuth.js"
    /\ invalid \in [Keys -> BOOLEAN]

\* -------------------------------------------------------------- actions
\* The router's middleware stack on one inbound request, up to the handler.
ReceiveFrom(r, inputs) ==
    /\ pc[r] = "new"
    /\ \A q \in Requests : q < r => pc[q] # "new"
    /\ \E i \in inputs :
        LET q == IF routerFile = "apiV1beta.js" THEN workerAuthFromQuery(i)
                 ELSE NoQueryMiddleware(i)
            dbs == IF authFile = "workerAuth.js" THEN requireWorkerAuthDb(i, q)
                   ELSE requireWorkerAuthPart001Db(i, q)
        IN \E db \in dbs :
            LET a == IF authFile = "workerAuth.js" THEN requireWorkerAuth(i, q, db)
                     ELSE requireWorkerAuthPart001(i, q, db)
            IN /\ req' = [req EXCEPT ![r] = i]
               /\ url' = [url EXCEPT ![r] = q.url]
               /\ workerApiKey' = [workerApiKey EXCEPT ![r] = a.workerApiKey]
               /\ pc' = [pc EXCEPT ![r] =
                            CASE a.to = "next" -> "handler"
                              [] a.to = "401" -> "done"
                              [] OTHER -> "error"]
               /\ res' = [res EXCEPT ![r] =
                            CASE a.to = "next" -> NoRes
                              [] a.to = "401" ->
                                    [status |-> 401, kind |-> "unauthenticated",
                                     ended |-> TRUE]
                              [] OTHER -> [status |-> 500, kind |-> "error",
                                           ended |-> TRUE]]
    /\ UNCHANGED <<buildVars, now, keyVars, sel, out, upstream, pending, ioVars,
                   histVars>>

Receive(r) == ReceiveFrom(r, CoreInputs)

\* latest end of the cooldowns recorded so far for key k and category c
CooledUntil(k, c) ==
    LET ends == {d.at + d.dur : d \in {x \in cooled : x.key = k /\ x.cat = c}}
    IN IF ends = {} THEN 0 ELSE CHOOSE e \in ends : \A o \in ends : e >= o

\* what a selection for category c that returns k sees
Snapshot(c, k) ==
    [called |-> TRUE, at |-> now, cat |-> c,
     inv |-> {x \in Keys : invalid[x]},
     cool |-> {x \in Keys : CooledUntil(x, c) > now},
     coolAny |-> {x \in Keys : \E d \in Cats : CooledUntil(x, d) > now},
     ends |-> IF k = NoKey THEN 0 ELSE CooledUntil(k, c)]

RunAfterSelect(c, k) ==
    IF k = NoKey THEN run
    ELSE IF run.cat = c /\ run.keys # <<>>
         THEN [run EXCEPT !.keys = Append(@, k)]
         ELSE [cat |-> c, keys |-> <<k>>, allEligible |-> EligibleKeys(c) = Keys]

\* a cursor that stays where it was
CursorStuck(k) == cursor

\* selectKey leaves the rotation cursor on the key it returned
CursorAfterSelect(k) == k

\* a handler that goes on to the upstream call without a key
NoKeyNeverChecked(k) == FALSE

\* line 77: if (!selectedKey)
NoKeyAvailable(k) == k = NoKey

\* lines 43-111: model id, key selection, exhaustion response or upstream call
Handler(r) ==
    /\ pc[r] = "handler"
    /\ routerFile = "apiV1beta.js"
    /\ LET m == modelId(req[r].path)
           k == getNextAvailableGeminiKey(m)
       IN /\ snap' = [snap EXCEPT ![r] = Snapshot(modelsConfig(m), k)]
          /\ run' = RunAfterSelect(modelsConfig(m), k)
          /\ IF NoKeyAvailable(k)
             THEN /\ res' = [res EXCEPT ![r] =
                        [status |-> 503, kind |-> "exhausted", ended |-> TRUE]]
                  /\ pc' = [pc EXCEPT ![r] = "done"]
                  /\ calls' = [calls EXCEPT ![r].select = @ + 1]
                  /\ UNCHANGED <<cursor, sel, out, io>>
             ELSE /\ cursor' = CursorAfterSelect(k)
                  /\ calls' = [calls EXCEPT ![r].select = @ + 1, ![r].fetch = @ + 1]
                  /\ io' = [io EXCEPT ![r].up = "open"]
                  /\ sel' = [sel EXCEPT ![r] = k]
                  /\ out' = [out EXCEPT ![r] =
                        [sent |-> TRUE, key |-> k,
                         path |-> targetUrl(req[r].path, url[r]).path,
                         query |-> targetUrl(req[r].path, url[r]).query,
                         headers |-> headersToForward(req[r], k)]]
                  /\ pc' = [pc EXCEPT ![r] = "fetching"]
                  /\ UNCHANGED res
    /\ UNCHANGED <<buildVars, now, invalid, cooldownUntil, usage, req, url,
                   workerApiKey, upstream, pending, cooled, rateAfterInvalid>>

\* unnamed/part_000 21-31: the template literal of line 31 reads originalPath,
\* which that file never declares: the async handler rejects before its try
HandlerPart000(r) ==
    /\ pc[r] = "handler"
    /\ routerFile = "part_000"
    /\ pc' = [pc EXCEPT ![r] = "rejected"]
    /\ UNCHANGED <<buildVars, now, keyVars, req, url, workerApiKey, sel, out,
                   upstream, res, pending, ioVars, histVars>>

\* upstream replies of the concurrent runs: every status, both body branches
CoreReplies ==
    {[status |-> 200, body |-> TRUE, chunks |-> <<"a">>],
     [status |-> 429, body |-> TRUE, chunks |-> <<"a">>],
     [status |-> 401, body |-> TRUE, chunks |-> <<"a">>],
     [status |-> 403, body |-> FALSE, chunks |-> <<>>],
     [status |-> 500, body |-> FALSE, chunks |-> <<>>]}

\* lines 104-171: fetch resolves; status and headers, pipe or end, feedback
FetchResolveWith(r, replies) ==
    /\ pc[r] = "fetching"
    /\ \E reply \in replies :
        LET m == modelId(req[r].path)
            c == modelCategory(m)
            ops == FeedbackOnResponse(r, sel[r], m, c, reply.status, reply.body)
        IN /\ upstream' = [upstream EXCEPT ![r] = reply]
           /\ io' = [io EXCEPT ![r].piped = reply.body,
                               ![r].reading = AwaitsText(reply.status, reply.body),
                               ![r].up = IF reply.body THEN "open" ELSE "ended"]
           /\ calls' = [calls EXCEPT
                    ![r].usage = @ + Cardinality({o \in ops : o.op = "usage"}),
                    ![r].cred = @ + Cardinality({o \in ops : o.op = "cred"})]
           /\ res' = [res EXCEPT ![r] =
                        [status |-> reply.status, kind |-> "relay",
                         ended |-> ~reply.body]]
           /\ pending' = pending \cup ops
           /\ pc' = [pc EXCEPT ![r] =
                        IF AwaitsText(reply.status, reply.body) THEN "text"
                        ELSE IF reply.body THEN "piping" ELSE "done"]
    /\ UNCHANGED <<buildVars, now, keyVars, req, url, workerApiKey, sel, out,
                   histVars>>

FetchResolve(r) == FetchResolveWith(r, CoreReplies)

\* a catch that goes back to the key selection
RetryAfterFetchRejected(r) == "handler"

\* lines 173-177: the catch hands the error on and the handler returns
AfterFetchRejected(r) == "error"

\* lines 104 and 173-177: fetch rejects, nothing sent yet, next(error)
FetchReject(r) ==
    /\ pc[r] = "fetching"
    /\ pc' = [pc EXCEPT ![r] = AfterFetchRejected(r)]
    /\ res' = [res EXCEPT ![r] = [status |-> 500, kind |-> "error", ended |-> TRUE]]
    /\ io' = [io EXCEPT ![r].up = "failed"]
    /\ UNCHANGED <<buildVars, now, keyVars, req, url, workerApiKey, sel, out,
                   upstream, pending, calls, histVars>>

\* lines 142-150: text() settles either way and handle429Error is started
TextSettleWith(r, diags) ==
    /\ pc[r] = "text"
    /\ \E diag \in diags :
        LET m == modelId(req[r].path)
        IN pending' = pending \cup {Op("rate", r, sel[r], m, modelCategory(m), diag)}
    /\ pc' = [pc EXCEPT ![r] = CASE io[r].up = "ended" -> "done"
                                  [] io[r].up = "failed" -> "stalled"
                                  [] OTHER -> "piping"]
    /\ calls' = [calls EXCEPT ![r].rate = @ + 1]
    /\ io' = [io EXCEPT ![r].reading = FALSE]
    /\ UNCHANGED <<buildVars, now, keyVars, req, url, workerApiKey, sel, out,
                   upstream, res, histVars>>

\* the body left aside: text() settles at some time, one way or the other
TextSettle(r) == TextSettleWith(r, {"hint", "unreadable"})

\* geminiKeyService.incrementKeyUsage, running in the background
incrementKeyUsage(o) ==
    /\ o \in pending /\ o.op = "usage"
    /\ usage' = [usage EXCEPT
                    ![o.key].byModel[o.model] = UsageAfterIncrement(@),
                    ![o.key].byCategory[o.cat] = UsageAfterIncrement(@)]
    /\ pending' = pending \ {o}
    /\ UNCHANGED <<buildVars, now, invalid, cooldownUntil, cursor, req, pc, url,
                   workerApiKey, sel, out, upstream, res, ioVars, histVars>>

\* the run of selections ends when the state of a key changes
RunAfterChange == IF <<invalid, cooldownUntil>>' = <<invalid, cooldownUntil>> THEN run ELSE NoRun

\* geminiKeyService.handle429Error, running in the background
handle429Error(o) ==
    /\ o \in pending /\ o.op = "rate"
    /\ cooldownUntil' = [cooldownUntil EXCEPT
                            ![o.key][o.cat] = CooldownAfterRateLimited(o.key, o.cat, o.diag)]
    /\ invalid' = [invalid EXCEPT ![o.key] = InvalidAfterRateLimited(o.key)]
    /\ cooled' = IF invalid[o.key] THEN cooled
                 ELSE cooled \cup {[key |-> o.key, cat |-> o.cat, at |-> now,
                                    dur |-> CooldownFor(o.diag)]}
    /\ rateAfterInvalid' = [rateAfterInvalid EXCEPT ![o.key] = @ \/ invalid[o.key]]
    /\ run' = RunAfterChange
    /\ pending' = pending \ {o}
    /\ UNCHANGED <<buildVars, now, usage, cursor, req, pc, url, workerApiKey, sel,
                   out, upstream, res, ioVars, snap>>

\* geminiKeyService.recordKeyError, running in the background
recordKeyError(o) ==
    /\ o \in pending /\ o.op = "cred"
    /\ invalid' = [invalid EXCEPT ![o.key] = TRUE]
    /\ run' = IF invalid[o.key] THEN run ELSE NoRun
    /\ pending' = pending \ {o}
    /\ UNCHANGED <<buildVars, now, cooldownUntil, usage, cursor, req, pc, url,
                   workerApiKey, sel, out, upstream, res, ioVars, snap, cooled,
                   rateAfterInvalid>>

\* the wall clock; it is read only to compare it with a cooldown-until value
Tick ==
    /\ now < MaxClock
    /\ \E k \in Keys, c \in Cats : cooldownUntil[k][c] > now
    /\ now' = now + 1
    /\ UNCHANGED <<buildVars, keyVars, req, pc, url, workerApiKey, sel, out,
                   upstream, res, pending, ioVars, histVars>>

Next ==
    \/ \E r \in Requests : Receive(r)
    \/ \E r \in Requests : Handler(r)
    \/ \E r \in Requests : FetchResolve(r)
    \/ \E r \in Requests : FetchReject(r)
    \/ \E r \in Requests : TextSettle(r)
    \/ \E o \in pending : incrementKeyUsage(o)
    \/ \E o \in pending : handle429Error(o)
    \/ \E o \in pending : recordKeyError(o)
    \/ Tick

Spec == Init /\ [][Next]_vars

\* ------------------------------------------------ one request, in detail
\* Every shape of caller authentication, query string and header set, under
\* each version of the router and of the middleware, up to the upstream call.
SeqsUpTo(S, n) == UNION {[1..m -> S] : m \in 0..n}

QueryParams ==
    {<<"key", "w1">>, <<"key", "bad">>, <<"foo", "bar">>, <<"foo", "a%20b">>}

AuthHeaders ==
    {NoHeader, Bearer("w1"), Bearer(" w1"), Bearer("bad"),
     [scheme |-> "Basic", rest |-> "w1"]}

HttpInputs ==
    {[auth |-> a, query |-> q, xgoog |-> x, ctype |-> t, method |-> m, path |-> p] :
        a \in AuthHeaders, q \in SeqsUpTo(QueryParams, MaxParams),
        x \in {Absent, "caller-key"}, t \in {Absent, "text/plain"},
        m \in {"GET", "POST"},
        p \in {PathModelsPro, PathAlphaPro, PathFiles, PathOther}}

InitHttp ==
    /\ InitCommon
    /\ routerFile \in {"apiV1beta.js", "part_000"}
    /\ authFile \in {"workerAuth.js", "part_001"}
    /\ invalid \in [Keys -> BOOLEAN]

ReceiveHttp == ReceiveFrom(1, HttpInputs)

NextHttp ==
    \/ ReceiveHttp
    \/ Handler(1)
    \/ HandlerPart000(1)

SpecHttp == InitHttp /\ [][NextHttp]_vars

\* ------------------------------------------- one response, in detail
\* The relay of one upstream response: the body arrives in chunks, the pipe
\* started at line 133 writes them to res, the listener of text() (line 143)
\* collects them, the upstream may break off and the caller may go away.

\* a pipe that loses to the reader the chunks the reader takes
pipeStarvedByReader(chunk, reading) == IF reading THEN <<>> ELSE <<chunk>>

\* line 133, geminiResponse.body.pipe(res): every chunk the body emits is
\* written to res, whoever else listens
pipeWrites(chunk, reading) == <<chunk>>

\* the body emits its next chunk to its listeners (a paused stream emits none)
PipeChunk(r) ==
    /\ pc[r] \in {"piping", "text"}
    /\ io[r].up = "open"
    /\ io[r].emitted < Len(upstream[r].chunks)
    /\ io[r].piped \/ io[r].reading
    /\ LET ch == upstream[r].chunks[io[r].emitted + 1]
       IN io' = [io EXCEPT
                    ![r].emitted = @ + 1,
                    ![r].wrote = IF io[r].piped
                                 THEN @ \o pipeWrites(ch, io[r].reading) ELSE @,
                    ![r].text = IF io[r].reading THEN Append(@, ch) ELSE @]
    /\ UNCHANGED <<buildVars, now, keyVars, req, pc, url, workerApiKey, sel, out,
                   upstream, res, pending, calls, histVars>>

\* the body ends: the pipe ends res, text() has everything
PipeEnd(r) ==
    /\ pc[r] \in {"piping", "text"}
    /\ io[r].up = "open"
    /\ io[r].emitted = Len(upstream[r].chunks)
    /\ io[r].piped \/ io[r].reading
    /\ io' = [io EXCEPT ![r].up = "ended"]
    /\ res' = [res EXCEPT ![r].ended = @ \/ io[r].piped]
    /\ pc' = [pc EXCEPT ![r] = IF pc[r] = "piping" THEN "done" ELSE "text"]
    /\ UNCHANGED <<buildVars, now, keyVars, req, url, workerApiKey, sel, out,
                   upstream, pending, calls, histVars>>

\* the upstream connection breaks before the body is complete: the body
\* emits 'error'; pipe() does not pass it on and nothing else listens for it
UpstreamFails(r) ==
    /\ pc[r] \in {"piping", "text"}
    /\ io[r].up = "open"
    /\ io' = [io EXCEPT ![r].up = "failed"]
    /\ pc' = [pc EXCEPT ![r] = IF pc[r] = "piping" THEN "stalled" ELSE "text"]
    /\ UNCHANGED <<buildVars, now, keyVars, req, url, workerApiKey, sel, out,
                   upstream, res, pending, calls, histVars>>

\* the caller closes its connection mid-stream: res emits 'close' and the
\* pipe detaches; lines 104-111 give fetch no signal and nothing listens
\* for the close, so the upstream exchange is left as it is
ClientClose(r) ==
    /\ pc[r] \in {"piping", "text"}
    /\ io[r].up = "open"
    /\ io[r].caller = "open"
    /\ io' = [io EXCEPT ![r].caller = "closed", ![r].piped = FALSE]
    /\ UNCHANGED <<buildVars, now, keyVars, req, pc, url, workerApiKey, sel, out,
                   upstream, res, pending, calls, histVars>>

\* lines 142-150: text() resolves when the body has ended (with or without a
\* retry hint in it) and rejects when the body failed
TextOutcomes(r) ==
    CASE io[r].up = "ended" -> {"hint", "nohint"}
      [] io[r].up = "failed" -> {"unreadable"}
      [] OTHER -> {}

TextSettleStream(r) == TextSettleWith(r, TextOutcomes(r))

\* every status, without a body and with each body of up to MaxChunks chunks
RelayReplies ==
    {[status |-> st, body |-> TRUE, chunks |-> ch] :
        st \in Statuses, ch \in SeqsUpTo({"a", "b"}, MaxChunks)}
    \cup {[status |-> st, body |-> FALSE, chunks |-> <<>>] : st \in Statuses}

InitRelay ==
    /\ InitCommon
    /\ routerFile = "apiV1beta.js"
    /\ authFile = "workerAuth.js"
    /\ invalid \in [Keys -> BOOLEAN]

ReceiveRelay == ReceiveFrom(1, CoreInputs)
FetchResolveRelay == FetchResolveWith(1, RelayReplies)

NextRelay ==
    \/ ReceiveRelay
    \/ Handler(1)
    \/ FetchResolveRelay
    \/ FetchReject(1)
    \/ PipeChunk(1)
    \/ PipeEnd(1)
    \/ UpstreamFails(1)
    \/ ClientClose(1)
    \/ TextSettleStream(1)
    \/ \E o \in pending : incrementKeyUsage(o)
    \/ \E o \in pending : handle429Error(o)
    \/ \E o \in pending : recordKeyError(o)

SpecRelay == InitRelay /\ [][NextRelay]_vars

\* =============================================================== claims
Sum(f, S) ==
    LET RECURSIVE Acc(_)
        Acc(T) == IF T = {} THEN 0
                  ELSE LET x == CHOOSE y \in T : TRUE IN f[x] + Acc(T \ {x})
    IN Acc(S)

Count(seq, k) == Cardinality({n \in 1..Len(seq) : seq[n] = k})

OpsOf(r, kind) == {o \in pending : o.req = r /\ o.op = kind}

\* C1: a key that is Invalid is never returned by a selection, for any
\* category and whatever its cooldown timers say, and a key that a selection
\* saw Invalid is Invalid ever after.
C1_InvalidNeverSelected ==
    \A r \in Requests :
        snap[r].called =>
            /\ sel[r] \notin snap[r].inv
            /\ \A k \in snap[r].inv : invalid[k]
            /\ \A c \in Cats : SelectKey(c) = NoKey \/ ~invalid[SelectKey(c)]

\* a request selected a key that a later request, given another key, saw
\* Invalid: recordKeyError came in between
C1_Witness ==
    \E r1, r2 \in Requests :
        /\ sel[r1] # NoKey /\ sel[r2] # NoKey
        /\ upstream[r1].status \in {401, 403}
        /\ sel[r1] \in snap[r2].inv
        /\ snap[r2].cat = NoCat

\* C2: once the 401/403 of a request has been recorded, the key it used is
\* Invalid and not selectable for any category, in every order in which the
\* recordKeyError and handle429Error calls of concurrent requests take effect,
\* and whatever the clock says about its cooldowns.
C2_InvalidWinsOverCooldown ==
    \A r \in Requests :
        (upstream[r].status \in {401, 403} /\ OpsOf(r, "cred") = {}) =>
            /\ invalid[sel[r]]
            /\ \A c \in Cats : sel[r] \notin EligibleKeys(c) /\ SelectKey(c) # sel[r]

\* a 401 and a 429 for the same key, the rate limit taking effect last
C2_Witness ==
    \E r1, r2 \in Requests :
        /\ sel[r1] # NoKey /\ sel[r1] = sel[r2]
        /\ upstream[r1].status = 401 /\ upstream[r2].status = 429
        /\ pending = {}
        /\ rateAfterInvalid[sel[r1]]

Dispatched(k) == {r \in Requests : out[r].sent /\ sel[r] = k}
Relayed(k) == {r \in Dispatched(k) : upstream[r].status # 0}
UsageTotal(k) == Sum(usage[k].byModel, ModelIds)
UsageByCategoryTotal(k) == Sum(usage[k].byCategory, Cats)
PendingUsage(k) == {o \in pending : o.op = "usage" /\ o.key = k}
Quiescent ==
    /\ \A r \in Requests : pc[r] \notin {"handler", "fetching", "text"}
    /\ pending = {}

\* C4 as stated: when all is quiet, the usage total of a key is the number of
\* requests dispatched with it.
C4_UsageEqualsDispatched ==
    Quiescent => \A k \in Keys : UsageTotal(k) = Cardinality(Dispatched(k))

\* C4 as amended: the usage total of a key, with the increments still in
\* flight, is the number of requests dispatched with it whose upstream call
\* returned a response; a request whose upstream call failed is not counted.
C4_UsageEqualsRelayed ==
    \A k \in Keys :
        /\ UsageTotal(k) + Cardinality(PendingUsage(k)) = Cardinality(Relayed(k))
        /\ UsageByCategoryTotal(k) = UsageTotal(k)

\* two requests on one key, one answered and one failed, all increments done
C4_Witness ==
    \E k \in Keys :
        /\ Cardinality(Dispatched(k)) = 2
        /\ Cardinality(Relayed(k)) = 1
        /\ UsageTotal(k) = 1
        /\ Quiescent

\* C5: a selection that finds every key Invalid or cooling down for the
\* category returns none at once; the request ends with 503 no_key_available,
\* no upstream call, no feedback call, and the step changes no key state.
C5_ExhaustedState ==
    \A r \in Requests :
        (snap[r].called /\ snap[r].inv \cup snap[r].cool = Keys) =>
            /\ sel[r] = NoKey
            /\ pc[r] = "done"
            /\ res[r] = [status |-> 503, kind |-> "exhausted", ended |-> TRUE]
            /\ ~out[r].sent
            /\ \A o \in pending : o.req # r
            /\ upstream[r] = NoUpstream
C5_ExhaustedStep ==
    \A r \in Requests :
        (~snap[r].called /\ snap'[r].called /\ snap'[r].inv \cup snap'[r].cool = Keys) =>
            /\ keyVars' = keyVars
            /\ pending' = pending
            /\ res'[r].status = 503
C5_Exhausted == [](C5_ExhaustedState) /\ [][C5_ExhaustedStep]_vars

\* exhaustion with a key that is cooling down, not Invalid
C5_Witness ==
    \E r \in Requests :
        /\ res[r].kind = "exhausted"
        /\ snap[r].cool # {}
        /\ snap[r].inv # Keys

\* C6: in a run of M selections for one category, all N keys eligible and no
\* key state changing, every key is returned between floor(M/N) and
\* ceil(M/N) times, each selection returning the key after the one before.
C6_RoundRobin ==
    run.allEligible =>
        LET M == Len(run.keys)
        IN /\ \A k \in Keys :
                /\ Count(run.keys, k) >= M \div NumKeys
                /\ Count(run.keys, k) <= (M + NumKeys - 1) \div NumKeys
           /\ \A n \in 1..(M - 1) : run.keys[n + 1] = (run.keys[n] % NumKeys) + 1

\* a run of at least two selections over a fully eligible pool
C6_Witness == run.allEligible /\ Len(run.keys) >= 2

\* --------------------------------------------- claims on a single request
NamedBuild == routerFile = "apiV1beta.js" /\ authFile = "workerAuth.js"

Decoded(q) == [n \in 1..Len(q) |-> <<q[n][1], UrlDecode(q[n][2])>>]

\* C7: the query string sent upstream has no key parameter carrying the
\* caller's credential, however the caller authenticated, and has every other
\* parameter with its value unchanged.
C7_CredentialNotForwarded ==
    \A r \in Requests :
        (NamedBuild /\ out[r].sent) =>
            /\ \A n \in 1..Len(out[r].query) :
                ~(out[r].query[n][1] = "key"
                  /\ UrlDecode(out[r].query[n][2]) = workerApiKey[r])
            /\ Decoded(SelectSeq(out[r].query, NotKeyParam))
                 = Decoded(SelectSeq(req[r].query, NotKeyParam))

\* C8: an upstream request carries no authorization header, and its
\* x-goog-api-key header is the secret of the key selected for that request,
\* also when the caller sent an x-goog-api-key header of its own.
C8_OutboundCredential ==
    \A r \in Requests :
        out[r].sent =>
            /\ sel[r] # NoKey /\ out[r].key = sel[r]
            /\ out[r].headers["authorization"] = Absent
            /\ out[r].headers["x-goog-api-key"] = Secret(sel[r])

\* an upstream request for a caller that sent both headers
C8_Witness ==
    \E r \in Requests :
        /\ out[r].sent
        /\ req[r].auth # NoHeader
        /\ req[r].xgoog # Absent

\* C9: a request without Authorization header whose key query parameter is a
\* registered worker key is authenticated and reaches the handler with
\* req.workerApiKey set to that value (the registry lookup not failing).
C9_QueryKeyAuthenticates ==
    \A r \in Requests :
        (/\ NamedBuild
         /\ pc[r] # "new"
         /\ req[r].auth = NoHeader
         /\ QueryKey(req[r].query).kind = "string"
         /\ QueryKey(req[r].query).val \in WorkerKeys
         /\ res[r].kind # "error") =>
            /\ res[r].kind # "unauthenticated"
            /\ workerApiKey[r] = QueryKey(req[r].query).val

\* the credential a request presents: the bearer token, else the key parameter
Presented(i) ==
    IF i.auth.scheme = "Bearer" THEN [kind |-> "string", val |-> Trim(i.auth.rest)]
    ELSE QueryKey(i.query)
PresentsRegisteredKey(i) ==
    Presented(i).kind = "string" /\ Presented(i).val \in WorkerKeys

\* C10: a request whose worker credential is missing or not registered never
\* reaches the pipeline (no selection, cursor unmoved, no upstream call, no
\* feedback call) and is answered 401, unless the registry lookup itself
\* failed, which goes to the error handler.
C10_UnauthenticatedStopsEarly ==
    \A r \in Requests :
        (pc[r] # "new" /\ ~PresentsRegisteredKey(req[r])) =>
            /\ pc[r] \in {"done", "error"}
            /\ ~snap[r].called /\ sel[r] = NoKey /\ cursor = 0
            /\ ~out[r].sent
            /\ pending = {}
            /\ \/ res[r] = [status |-> 401, kind |-> "unauthenticated", ended |-> TRUE]
               \/ res[r].kind = "error"
            /\ Presented(req[r]).kind = "absent" => res[r].status = 401

\* a 401 for a credential that was looked up and not found
C10_Witness ==
    \E r \in Requests :
        /\ res[r].kind = "unauthenticated"
        /\ Presented(req[r]).kind = "string"
        /\ Presented(req[r]).val \notin WorkerKeys

\* ------------------------------------------- claims on a single response
HandlerFinished(r) == pc[r] \in {"piping", "done", "stalled"}

\* C11: every request whose upstream answered 429, once its handler is done
\* with the response, has called handle429Error exactly once, for the key
\* selected for it and the category of its model, with a body or without;
\* and no other request has called it.
C11_RateLimitedOnce ==
    \A r \in Requests :
        /\ (upstream[r].status = 429 /\ HandlerFinished(r)) => calls[r].rate = 1
        /\ upstream[r].status # 429 => calls[r].rate = 0
        /\ \A o \in OpsOf(r, "rate") :
            o.key = sel[r] /\ o.cat = modelsConfig(modelId(req[r].path))

\* C12: a request makes at most one key selection and at most one upstream
\* call, whatever the upstream answers and also when the call fails, and the
\* status the caller gets is the status of that one attempt.
C12_SingleAttempt ==
    \A r \in Requests :
        /\ calls[r].select <= 1
        /\ calls[r].fetch <= 1
        /\ calls[r].fetch = 1 <=> out[r].sent
        /\ upstream[r].status # 0 =>
              res[r] = [status |-> upstream[r].status, kind |-> "relay",
                        ended |-> res[r].ended]
        /\ io[r].up = "failed" /\ upstream[r].status = 0 => res[r].kind = "error"

\* an error status relayed while another key could have been tried
C12_Witness ==
    \E r \in Requests, k \in Keys :
        /\ upstream[r].status \in {429, 401, 403, 500}
        /\ res[r].status = upstream[r].status
        /\ HandlerFinished(r)
        /\ k # sel[r] /\ ~invalid[k]

\* headers go out with the first write to res or with its end
HeadersSent(r) == res[r].kind = "relay" /\ (res[r].ended \/ io[r].wrote # <<>>)

\* C13: a failure before the response headers are sent ends at the global
\* error handler with nothing of the upstream response written to the caller;
\* a failure after the headers are sent leaves the response ended, with what
\* was relayed until then and no error payload.
C13_FailureEndsResponse ==
    \A r \in Requests :
        io[r].up = "failed" =>
            IF HeadersSent(r)
            THEN res[r].ended /\ res[r].kind = "relay"
            ELSE pc[r] = "error" /\ res[r].kind = "error" /\ io[r].wrote = <<>>

\* C14: once the caller has closed its connection mid-stream the upstream
\* request is aborted, and the usage recorded for the attempt is still there.
C14_CallerCloseAbortsUpstream ==
    \A r \in Requests :
        io[r].caller = "closed" =>
            /\ io[r].up = "aborted"
            /\ UsageTotal(sel[r]) + Cardinality(PendingUsage(sel[r])) = calls[r].usage

C18_PipeOrReadNeverBoth ==
    \A r \in Requests :
        /\ ~(io[r].piped /\ io[r].reading)
        /\ io[r].wrote = <<>> \/ io[r].text = <<>>

\* ------------------------------------------------------ claims on paths
\* the model id of the models/{modelId}:{action} segment of a path, wherever
\* in the path that segment is
SegmentModel(path) ==
    IF path.root = "models" /\ path.model # "" /\ path.action
    THEN path.model ELSE NoModel

\* upstream resource roots
ResourceRoots == {"models", "files", "operations", "tunedModels", "permissions"}

\* a path from its first recognized resource root onward
FromResourceRoot(path) ==
    IF path.root \in ResourceRoots THEN [path EXCEPT !.pre = FALSE] ELSE path

\* C16: the category a key is selected for is that of the model id in the
\* models/{modelId}:{action} segment, with or without extra segments ahead
\* of it; only a path without such a segment selects without a model.
C16_ModelIdWithExtraSegments ==
    \A r \in Requests :
        snap[r].called => snap[r].cat = modelsConfig(SegmentModel(req[r].path))

\* C17 as stated: the path sent upstream is the inbound path from its first
\* recognized resource root onward, and the inbound path itself when it has
\* no recognized root.
C17_PathFromResourceRoot ==
    \A r \in Requests : out[r].sent => out[r].path = FromResourceRoot(req[r].path)

\* C17 as amended: the path sent upstream is the inbound path after the mount
\* point, unchanged, whatever is ahead of a resource root and whether or not
\* there is one.
C17_PathForwardedUnchanged ==
    \A r \in Requests : out[r].sent => out[r].path = req[r].path

\* an upstream request for a path with a segment ahead of models/
C17_Witness ==
    \E r \in Requests : out[r].sent /\ req[r].path.pre /\ out[r].path.pre

\* ----------------------------------------------------- claims on selection
\* C19: a selection returns the first key in cyclic order from just after
\* the cursor that is neither Invalid nor in a recorded cooldown for the
\* category that has not run out, and leaves the cursor on it and the key
\* states as they were; when there is no such key it returns none, the
\* request gets the exhaustion response and nothing of the pool changes.
C19_SelectStep ==
    \A r \in Requests :
        (pc[r] = "handler" /\ pc'[r] # "handler") =>
            LET c == modelsConfig(modelId(req[r].path))
                Out(k) == invalid[k] \/ CooledUntil(k, c) > now
                nth(j) == ((cursor + j - 1) % NumKeys) + 1
            IN IF \A k \in Keys : Out(k)
               THEN /\ sel'[r] = NoKey /\ res'[r].status = 503
                    /\ UNCHANGED <<invalid, cooldownUntil, usage, cursor>>
               ELSE /\ \E j \in 1..NumKeys :
                        /\ sel'[r] = nth(j) /\ cursor' = nth(j)
                        /\ ~Out(nth(j))
                        /\ \A i \in 1..(j - 1) : Out(nth(i))
                    /\ UNCHANGED <<invalid, cooldownUntil, usage>>

C19_SelectKeyScan == [][C19_SelectStep]_vars

\* the same key returned to two requests in a row: the other one was skipped
C19_Witness ==
    \E r1, r2 \in Requests :
        /\ r1 # r2 /\ sel[r1] # NoKey /\ sel[r1] = sel[r2]
        /\ snap[r2].inv \cup snap[r2].cool # {}

\* C20: once the clock has reached the end of every cooldown recorded for a
\* key and a category, a selection for that category made right now finds
\* the key eligible, and returns it when it is next in rotation, with no
\* step in between; unless the key is Invalid, which no selection returns.
C20_LazyCooldownExpiry ==
    \A d \in cooled :
        CooledUntil(d.key, d.cat) <= now =>
            IF invalid[d.key]
            THEN \A c \in Cats : SelectKey(c) # d.key
            ELSE /\ SelectKey(d.cat) # NoKey
                 /\ RotationKey(1) = d.key => SelectKey(d.cat) = d.key

\* a key returned for a category after its cooldown for it had run out
C20_Witness ==
    \E r \in Requests, d \in cooled :
        /\ sel[r] = d.key /\ snap[r].cat = d.cat
        /\ snap[r].ends = d.at + d.dur
        /\ snap[r].at >= snap[r].ends

\* ---------------------------------------------------- claims on outcomes
\* the caller has its outcome: the response is ended (exhaustion response,
\* relayed response, error handler's response) or the connection is closed
Terminal(r) == res[r].ended \/ io[r].caller = "closed"

\* something is still to come for the request: a step of the handler or of
\* the transfer of the upstream response
InProgress(r) ==
    ENABLED (\/ Handler(r)
             \/ FetchResolveWith(r, RelayReplies)
             \/ FetchReject(r)
             \/ PipeChunk(r)
             \/ PipeEnd(r)
             \/ TextSettleStream(r))

\* C21: a request that has entered the handler is never left without an
\* outcome: as long as the caller has none, a step that leads to one is
\* still to come.
C21_NoRequestLeftOpen ==
    \A r \in Requests :
        pc[r] \notin {"new"} => Terminal(r) \/ InProgress(r)

\* C22: once the handler is done with an upstream response, it has called
\* incrementKeyUsage once, handle429Error once if and only if the status was
\* 429, recordKeyError once if and only if it was 401 or 403, and for any
\* other status no cooldown exists and the key it used is not Invalid.
C22_FeedbackByStatus ==
    \A r \in Requests :
        (HandlerFinished(r) /\ upstream[r].status # 0) =>
            /\ calls[r].usage = 1
            /\ calls[r].rate = IF upstream[r].status = 429 THEN 1 ELSE 0
            /\ calls[r].cred = IF upstream[r].status \in {401, 403} THEN 1 ELSE 0
            /\ upstream[r].status \notin {429, 401, 403} =>
                  /\ ~invalid[sel[r]]
                  /\ cooled = {}
                  /\ \A k \in Keys, c \in Cats : cooldownUntil[k][c] = 0
====
